---- MODULE Spec2Model ----
(***************************************************************************)
(* A model of mkarchmers/session_monitor:                                  *)
(*   - session_db.py : the SQLite session store                            *)
(*   - server.py     : the REST registry surface over the store            *)
(*   - pool_manager.py / app_pool.py : the reference-counted shared pool   *)
(*   - session_client.py : the per-session client (heartbeat thread,       *)
(*     kill callbacks, stop)                                               *)
(* Four specifications share the variables: SpecDb (direct callers of      *)
(* session_db, as SessionTracker is), SpecServer (the REST handlers),      *)
(* SpecPool (callers of the pool functions) and SpecApp (pool sessions     *)
(* with their clients).                                                    *)
(***************************************************************************)
EXTENDS Integers, Sequences, FiniteSets, TLC

\* ------------------------------------------------------------------ bounds
NumIds == 2          \* session ids the store is exercised with
MaxElapsed == 1      \* clock ticks that pass in a run
TicksPerSec == 2     \* sub-second resolution of the clock (microseconds, scaled)
SecPerMin == 1       \* seconds per minute (scaled)
MaxOlder == 1        \* largest older_than_minutes a sweep is called with
NumCallers == 2      \* threads calling the pool functions
MaxPools == 2        \* pool instances built in a run
MaxActive == 2       \* cap on increment_sessions calls outstanding
NumApps == 2         \* pool-app sessions (each with its SessionClient)
MaxStops == 2        \* stop() calls made on the document side, all sessions together
MaxKills == 1        \* heartbeats the server answers with kill_requested, all sessions together
MaxCbs == 2          \* callbacks registered with on_kill besides kill_handler

SessionIds == 1..NumIds
Callers == 1..NumCallers
AppSessions == 1..NumApps
\* a client's two threads: the document/main thread and its heartbeat thread
Threads == AppSessions \X {"M", "H"}
Apps == {"app"}
Users == {"None"}
\* the status updates task() issues: (running, name) on entry, (idle, None) on exit
StatusUpdates == {<<"running", "task">>, <<"idle", "None">>}
OlderThan == {0, MaxOlder}
None == "None"

TicksPerMin == SecPerMin * TicksPerSec
\* get_all_sessions: timedelta(minutes=2); load_sessions_data: older_than_minutes 10
StaleMinutes == 2
ReapMinutes == 10
\* the clock starts late enough for every threshold the sweeps compute to be a date
StartClock == (IF MaxOlder > ReapMinutes THEN MaxOlder ELSE ReapMinutes) * TicksPerMin
EndClock == StartClock + MaxElapsed
\* the monitor's last run: a row of the first instant has expired by MaxElapsed ticks
ReapEnd == EndClock + ReapMinutes * TicksPerMin

VARIABLES
    sessions,      \* the sessions table: session_id -> row
    clock,         \* datetime.utcnow(), in ticks
    sweep,         \* a cleanup_stale_sessions call between its clock read and its DELETE
    lastOp,        \* what the last direct store call returned, if it returns anything
    nextId,        \* ids create_session has handed out so far
    resp,          \* the last REST response
    deleted,       \* ids a DELETE /sessions/{id} answered 200 for
    pool,          \* _pool: NoPool or the instance
    active,        \* _active_sessions
    made,          \* pool instances built so far (instance n is the n-th built)
    terminated,    \* instances terminate() was called on
    cpc,           \* per caller: where it is inside decrement_sessions / shutdown_pool
    cpool,         \* per caller: shutdown_pool's local "pool"
    got,           \* per caller: what its last get_pool returned
    lastCall,      \* the last pool call made: <<caller, function>>
    decAtZero,     \* a decrement_sessions ran with the count at zero
    pc,            \* per thread: where it is
    frame,         \* per thread: "stop" inside stop(), "kill" inside _handle_kill_request
    cbLocal,       \* per thread: the local "callbacks"
    aliased,       \* per thread: "callbacks" is still the client's own list object
    idx,           \* per thread: position of "for cb in callbacks"
    lpool,         \* per thread: shutdown_pool's local "pool"
    cbs,           \* per client: _on_kill_callbacks
    stopHb,        \* per client: _stop_heartbeat is set
    connected,     \* per client: _connected
    hasDoc,        \* per client: _curdoc and _curdoc.session_context
    nextTick,      \* per client: _destroy_session waits on the document's next-tick queue
    attempt,       \* per client: which stop() of _handle_kill_request runs (1 try, 2 except)
    closed,        \* per client: the httpx client is closed
    inReg,         \* per client: it is in SessionClient._instances
    stopEvent,     \* per session: its stop_event is set
    mypool,        \* per session: the "pool" PoolApp.run holds
    wstate,        \* per session: its two workers
    counted,       \* per session: it has run _increment_sessions
    released,      \* per session: its kill_handler has run _decrement_sessions
    peers,         \* per session: the sessions counted and not released at its first release
    cbRuns,        \* per session: times its kill_handler was invoked
    deleteSent,    \* per client: DELETE requests sent
    stops,         \* per client: stop() calls begun on the main thread
    stopEnded,     \* per client: a stop() call has returned or raised
    kills,         \* heartbeats answered kill_requested so far
    cl,            \* a SessionClient talking to server.py
    trk,           \* a SessionTracker on session_db
    wire           \* what those two have sent so far

storeVars == <<sessions, clock, sweep, lastOp>>
serverVars == <<nextId, resp, deleted>>
poolVars == <<pool, active, made, terminated>>
callerVars == <<cpc, cpool, got, lastCall, decAtZero>>
threadVars == <<pc, frame, cbLocal, aliased, idx, lpool>>
clientVars == <<cbs, stopHb, connected, hasDoc, nextTick, attempt, closed, inReg>>
appVars == <<stopEvent, mypool, wstate, counted, released, peers>>
histVars == <<cbRuns, deleteSent, stops, stopEnded, kills>>
sessionVars == <<threadVars, clientVars, appVars, histVars>>
linkVars == <<cl, trk, wire>>
vars == <<sessions, clock, sweep, lastOp, nextId, resp, deleted,
          pool, active, made, terminated, cpc, cpool, got, lastCall, decAtZero,
          pc, frame, cbLocal, aliased, idx, lpool,
          cbs, stopHb, connected, hasDoc, nextTick, attempt, closed, inReg,
          stopEvent, mypool, wstate, counted, released, peers,
          cbRuns, deleteSent, stops, stopEnded, kills, cl, trk, wire>>

\* ------------------------------------------------- datetime <-> ISO-8601 text
\* A datetime is a tick count; its text is the seconds, zero-padded to a fixed
\* width, followed by "." and the fraction only when the fraction is not zero
\* (datetime.isoformat() drops ".ffffff" when microsecond == 0).  Characters
\* are their code points: "0".."9" are 48..57 and "." is 46.
Digit(d) == 48 + d

isoformat(t) ==
    LET sec == t \div TicksPerSec
        frac == t % TicksPerSec
    IN <<Digit((sec \div 10) % 10), Digit(sec % 10)>>
       \o (IF frac = 0 THEN <<>> ELSE <<46, Digit(frac)>>)

fromisoformat(s) ==
    LET sec == (s[1] - 48) * 10 + (s[2] - 48)
        frac == IF Len(s) > 2 THEN s[4] - 48 ELSE 0
    IN sec * TicksPerSec + frac

timedelta_minutes(m) == m * TicksPerMin

\* SQLite's comparison of two TEXT values (BINARY collation: memcmp, then length)
RECURSIVE TextLess(_, _)
TextLess(a, b) ==
    IF a = <<>> THEN b # <<>>
    ELSE IF b = <<>> THEN FALSE
    ELSE IF Head(a) # Head(b) THEN Head(a) < Head(b)
    ELSE TextLess(Tail(a), Tail(b))

\* ------------------------------------------------------------- session_db.py
\* Every call returns the table it leaves and the value it returns.
Insert(db, sid, row) == [x \in DOMAIN db \cup {sid} |-> IF x = sid THEN row ELSE db[x]]

register_session_keep_nothing(db, sid, app, user, now) ==
    LET ts == isoformat(now)
    IN [db |-> Insert(db, sid,
                  [app_name |-> app, user_id |-> user, start_time |-> ts,
                   last_heartbeat |-> ts, status |-> "idle",
                   current_task |-> None, kill_requested |-> 0]),
        ret |-> None]

register_session(db, sid, app, user, now) ==
    LET ts == isoformat(now)
    IN IF sid \in DOMAIN db
       THEN [db |-> [db EXCEPT ![sid].last_heartbeat = ts,
                               ![sid].app_name = app,
                               ![sid].user_id = user],
             ret |-> None]
       ELSE [db |-> Insert(db, sid,
                       [app_name |-> app, user_id |-> user, start_time |-> ts,
                        last_heartbeat |-> ts, status |-> "idle",
                        current_task |-> None, kill_requested |-> 0]),
             ret |-> None]

update_heartbeat_whole_seconds(db, sid, now) ==
    [db |-> IF sid \in DOMAIN db
            THEN [db EXCEPT ![sid].last_heartbeat =
                                isoformat((now \div TicksPerSec) * TicksPerSec)]
            ELSE db,
     ret |-> None]

update_heartbeat(db, sid, now) ==
    [db |-> IF sid \in DOMAIN db
            THEN [db EXCEPT ![sid].last_heartbeat = isoformat(now)]
            ELSE db,
     ret |-> None]

set_status_upsert(db, sid, status, current_task, now) ==
    LET ts == isoformat(now)
    IN [db |-> IF sid \in DOMAIN db
               THEN [db EXCEPT ![sid].status = status,
                               ![sid].current_task = current_task,
                               ![sid].last_heartbeat = ts]
               ELSE Insert(db, sid,
                       [app_name |-> None, user_id |-> None, start_time |-> ts,
                        last_heartbeat |-> ts, status |-> status,
                        current_task |-> current_task, kill_requested |-> 0]),
        ret |-> None]

set_status(db, sid, status, current_task, now) ==
    [db |-> IF sid \in DOMAIN db
            THEN [db EXCEPT ![sid].status = status,
                            ![sid].current_task = current_task,
                            ![sid].last_heartbeat = isoformat(now)]
            ELSE db,
     ret |-> None]

remove_session_none(db, sid) == [db |-> db, ret |-> None]

remove_session(db, sid) ==
    [db |-> [x \in DOMAIN db \ {sid} |-> db[x]], ret |-> None]

request_kill(db, sid) ==
    [db |-> IF sid \in DOMAIN db
            THEN [db EXCEPT ![sid].kill_requested = 1]
            ELSE db,
     ret |-> None]

check_kill_requested(db, sid) ==
    sid \in DOMAIN db /\ db[sid].kill_requested = 1

\* The rows of get_all_sessions (the ORDER BY of the list is not modelled).
get_all_sessions(db, now) ==
    LET stale_threshold == now - timedelta_minutes(2)
    IN { LET start_time == fromisoformat(db[x].start_time)
             last_heartbeat == fromisoformat(db[x].last_heartbeat)
             is_stale == last_heartbeat < stale_threshold
         IN [session_id |-> x,
             app_name |-> db[x].app_name,
             user_id |-> db[x].user_id,
             start_time |-> start_time,
             last_heartbeat |-> last_heartbeat,
             duration |-> now - start_time,
             status |-> IF is_stale THEN "stale" ELSE db[x].status,
             current_task |-> db[x].current_task,
             is_stale |-> is_stale,
             kill_requested |-> db[x].kill_requested # 0]
         : x \in DOMAIN db }

cleanup_threshold_now(now, older_than_minutes) ==
    isoformat(now - timedelta_minutes(StaleMinutes))

\* cleanup_stale_sessions, first statement: the threshold text
cleanup_threshold(now, older_than_minutes) ==
    isoformat(now - timedelta_minutes(older_than_minutes))

cleanup_delete_le(db, threshold) ==
    LET gone == {x \in DOMAIN db : ~TextLess(threshold, db[x].last_heartbeat)}
    IN [db |-> [x \in DOMAIN db \ gone |-> db[x]], ret |-> Cardinality(gone)]

\* cleanup_stale_sessions, the DELETE and its rowcount
cleanup_delete(db, threshold) ==
    LET gone == {x \in DOMAIN db : TextLess(db[x].last_heartbeat, threshold)}
    IN [db |-> [x \in DOMAIN db \ gone |-> db[x]], ret |-> Cardinality(gone)]

\* session_db.create_session, delete_session and update_status are called by
\* server.py and defined nowhere in the sources: modelled from the data model
\* (Create inserts a fresh id, Delete answers whether the row existed,
\* UpdateStatus answers whether the row was found).
create_session(db, fresh, app, user, now) ==
    [db |-> register_session(db, fresh, app, user, now).db, ret |-> fresh]

delete_session(db, sid) ==
    [db |-> remove_session(db, sid).db, ret |-> sid \in DOMAIN db]

update_status(db, sid, status, current_task, now) ==
    [db |-> set_status(db, sid, status, current_task, now).db,
     ret |-> sid \in DOMAIN db]

\* ------------------------------------------------------------------ server.py
\* A handler returns the table it leaves, the HTTP status and the body.
srv_create_session(db, fresh, app, user, now) ==
    LET r == create_session(db, fresh, app, user, now)
    IN [db |-> r.db, code |-> 200, body |-> r.ret]

srv_delete_session(db, sid) ==
    LET r == delete_session(db, sid)
    IN IF ~r.ret
       THEN [db |-> r.db, code |-> 404, body |-> "Session not found"]
       ELSE [db |-> r.db, code |-> 200, body |-> "deleted"]

\* kill_requested = session_db.update_heartbeat(session_id);
\* if kill_requested is None: 404
srv_heartbeat(db, sid, now) ==
    LET r == update_heartbeat(db, sid, now)
    IN IF r.ret = None
       THEN [db |-> r.db, code |-> 404, body |-> "Session not found"]
       ELSE [db |-> r.db, code |-> 200, body |-> r.ret]

srv_update_status(db, sid, status, current_task, now) ==
    LET r == update_status(db, sid, status, current_task, now)
    IN IF ~r.ret
       THEN [db |-> r.db, code |-> 404, body |-> "Session not found"]
       ELSE [db |-> r.db, code |-> 200, body |-> "updated"]

\* if not session_db.request_kill(session_id): 404   (not None is True)
srv_kill_session(db, sid) ==
    LET r == request_kill(db, sid)
    IN IF r.ret = None
       THEN [db |-> r.db, code |-> 404, body |-> "Session not found"]
       ELSE [db |-> r.db, code |-> 200, body |-> "kill_requested"]

srv_list_sessions(db, now) ==
    [db |-> db, code |-> 200, body |-> get_all_sessions(db, now)]

\* ----------------------------------------- pool_manager.py (and app_pool.py)
\* app_pool.py repeats get_pool, shutdown_pool, _increment_sessions and
\* _decrement_sessions of pool_manager.py line for line.
NoPool == 0

\* get_pool: the critical section; "fresh" is the instance amp.Pool() would build
get_pool(p, fresh) ==
    IF p = NoPool
    THEN [pool |-> fresh, ret |-> fresh]
    ELSE [pool |-> p, ret |-> p]

shutdown_pool_lock_keep(p) == [pool |-> p, local |-> p, return |-> p = NoPool]

\* shutdown_pool, the critical section: return if there is no pool, else take
\* the reference and clear the global
shutdown_pool_lock(p) ==
    IF p = NoPool
    THEN [pool |-> p, local |-> NoPool, return |-> TRUE]
    ELSE [pool |-> NoPool, local |-> p, return |-> FALSE]

increment_sessions(n) == n + 1

decrement_sessions_plain(n) == n - 1

\* decrement_sessions, the critical section: max(0, _active_sessions - 1)
decrement_sessions(n) == IF n - 1 > 0 THEN n - 1 ELSE 0

\* ----------------------------------------------------------------- the state
NoSweep == [now |-> -1, t |-> -1, threshold |-> <<>>]
NoOp == [op |-> "none", ret |-> None]
NoResp == [op |-> "none", sid |-> 0, code |-> 0, body |-> None,
           existed |-> FALSE, killed |-> FALSE]

\* a client object before construction: st "none" | "up" | "stopped";
\* hb, the heartbeat thread: "off" | "wait" | "write" | "exit"; task "out" | "in"
NoClient == [st |-> "none", connected |-> FALSE, sid |-> 0, hb |-> "off",
             stopHb |-> FALSE, killed |-> FALSE, task |-> "out"]
\* calls: the kinds of request of the SessionClient that reached the server;
\* hbTick, trkTick: flip at every heartbeat POST / update_heartbeat of the loop;
\* gone: a heartbeat was answered 404; seen: the tracker's loop saw the flag;
\* lastStatus: the arguments of the client's last set_status that passed the
\* _connected test; trkStatus: those of the tracker's last set_status
\* done: a task() block of the SessionClient has ended; trkFailed: a cycle of
\* the tracker's loop raised; others: callbacks registered besides kill_handler;
\* raisedAt: how often kill_handler had run when a callback last raised, and
\* how many callbacks of the list came after it
NoWire == [calls |-> {}, hbTick |-> 0, trkTick |-> 0, gone |-> FALSE, seen |-> FALSE,
           trkFailed |-> FALSE, others |-> 0, raisedAt |-> <<>>,
           lastStatus |-> <<>>, trkStatus |-> <<>>, done |-> FALSE]

Init ==
    /\ sessions = <<>>
    /\ clock = StartClock
    /\ sweep = NoSweep
    /\ lastOp = NoOp
    /\ nextId = 0
    /\ resp = NoResp
    /\ deleted = {}
    /\ pool = NoPool
    /\ active = 0
    /\ made = 0
    /\ terminated = {}
    /\ cpc = [c \in Callers |-> "idle"]
    /\ cpool = [c \in Callers |-> NoPool]
    /\ got = [c \in Callers |-> NoPool]
    /\ lastCall = <<0, "none">>
    /\ decAtZero = FALSE
    /\ pc = [t \in Threads |-> IF t[2] = "M" THEN "new" ELSE "off"]
    /\ frame = [t \in Threads |-> "none"]
    /\ cbLocal = [t \in Threads |-> <<>>]
    /\ aliased = [t \in Threads |-> FALSE]
    /\ idx = [t \in Threads |-> 1]
    /\ lpool = [t \in Threads |-> NoPool]
    /\ cbs = [a \in AppSessions |-> <<>>]
    /\ stopHb = [a \in AppSessions |-> FALSE]
    /\ connected = [a \in AppSessions |-> FALSE]
    /\ hasDoc = [a \in AppSessions |-> FALSE]
    /\ nextTick = [a \in AppSessions |-> FALSE]
    /\ attempt = [a \in AppSessions |-> 0]
    /\ closed = [a \in AppSessions |-> FALSE]
    /\ inReg = [a \in AppSessions |-> FALSE]
    /\ stopEvent = [a \in AppSessions |-> FALSE]
    /\ mypool = [a \in AppSessions |-> NoPool]
    /\ wstate = [a \in AppSessions |-> "idle"]
    /\ counted = [a \in AppSessions |-> FALSE]
    /\ released = [a \in AppSessions |-> FALSE]
    /\ peers = [a \in AppSessions |-> {}]
    /\ cbRuns = [a \in AppSessions |-> 0]
    /\ deleteSent = [a \in AppSessions |-> 0]
    /\ stops = [a \in AppSessions |-> 0]
    /\ stopEnded = [a \in AppSessions |-> FALSE]
    /\ kills = 0
    /\ cl = NoClient
    /\ trk = NoClient
    /\ wire = NoWire

\* ------------------------------------------------ the clock and the sweep
Tick ==
    /\ clock < EndClock
    /\ clock' = clock + 1
    /\ UNCHANGED <<sessions, sweep, lastOp, serverVars, poolVars, callerVars, sessionVars, linkVars>>

\* cleanup_stale_sessions reads the clock, then runs its DELETE: other calls
\* may run in between.
SweepBegin(t) ==
    /\ sweep = NoSweep
    /\ sweep' = [now |-> clock, t |-> t, threshold |-> cleanup_threshold(clock, t)]
    /\ UNCHANGED <<sessions, clock, lastOp, serverVars, poolVars, callerVars, sessionVars, linkVars>>

SweepExec ==
    /\ sweep # NoSweep
    /\ LET r == cleanup_delete(sessions, sweep.threshold)
       IN /\ sessions' = r.db
          /\ lastOp' = [op |-> "cleanup_stale_sessions", ret |-> r.ret]
    /\ sweep' = NoSweep
    /\ UNCHANGED <<clock, serverVars, poolVars, callerVars, sessionVars, linkVars>>

\* ------------------------------------------- direct callers of session_db
DbRegister(sid, app, user) ==
    /\ LET r == register_session(sessions, sid, app, user, clock)
       IN /\ sessions' = r.db
          /\ lastOp' = [op |-> "register_session", ret |-> r.ret]
    /\ UNCHANGED <<clock, sweep, serverVars, poolVars, callerVars, sessionVars, linkVars>>

DbHeartbeat(sid) ==
    /\ LET r == update_heartbeat(sessions, sid, clock)
       IN /\ sessions' = r.db
          /\ lastOp' = NoOp
    /\ UNCHANGED <<clock, sweep, serverVars, poolVars, callerVars, sessionVars, linkVars>>

DbSetStatus(sid, status, task) ==
    /\ LET r == set_status(sessions, sid, status, task, clock)
       IN /\ sessions' = r.db
          /\ lastOp' = NoOp
    /\ UNCHANGED <<clock, sweep, serverVars, poolVars, callerVars, sessionVars, linkVars>>

DbRemove(sid) ==
    /\ LET r == remove_session(sessions, sid)
       IN /\ sessions' = r.db
          /\ lastOp' = NoOp
    /\ UNCHANGED <<clock, sweep, serverVars, poolVars, callerVars, sessionVars, linkVars>>

DbRequestKill(sid) ==
    /\ LET r == request_kill(sessions, sid)
       IN /\ sessions' = r.db
          /\ lastOp' = NoOp
    /\ UNCHANGED <<clock, sweep, serverVars, poolVars, callerVars, sessionVars, linkVars>>

NextDb ==
    \/ Tick
    \/ \E t \in OlderThan : SweepBegin(t)
    \/ SweepExec
    \/ \E sid \in SessionIds, app \in Apps, user \in Users : DbRegister(sid, app, user)
    \/ \E sid \in SessionIds : DbHeartbeat(sid)
    \/ \E sid \in SessionIds, u \in StatusUpdates : DbSetStatus(sid, u[1], u[2])
    \/ \E sid \in SessionIds : DbRemove(sid)
    \/ \E sid \in SessionIds : DbRequestKill(sid)

SpecDb == Init /\ [][NextDb]_vars

\* --------------------------------------------------- the registry surface
Respond(op, sid, r) ==
    resp' = [op |-> op, sid |-> sid, code |-> r.code, body |-> r.body,
             existed |-> sid \in DOMAIN sessions,
             killed |-> check_kill_requested(sessions, sid)]

SrvCreate(app, user) ==
    /\ nextId < NumIds
    /\ nextId' = nextId + 1
    /\ LET r == srv_create_session(sessions, nextId + 1, app, user, clock)
       IN sessions' = r.db /\ Respond("create", nextId + 1, r)
    /\ UNCHANGED <<clock, sweep, lastOp, deleted, poolVars, callerVars, sessionVars, linkVars>>

SrvDelete(sid) ==
    /\ LET r == srv_delete_session(sessions, sid)
       IN /\ sessions' = r.db
          /\ Respond("delete", sid, r)
          /\ deleted' = IF r.code = 200 THEN deleted \cup {sid} ELSE deleted
    /\ UNCHANGED <<clock, sweep, lastOp, nextId, poolVars, callerVars, sessionVars, linkVars>>

SrvHeartbeat(sid) ==
    /\ LET r == srv_heartbeat(sessions, sid, clock)
       IN sessions' = r.db /\ Respond("heartbeat", sid, r)
    /\ UNCHANGED <<clock, sweep, lastOp, nextId, deleted, poolVars, callerVars, sessionVars, linkVars>>

SrvUpdateStatus(sid, status, task) ==
    /\ LET r == srv_update_status(sessions, sid, status, task, clock)
       IN sessions' = r.db /\ Respond("status", sid, r)
    /\ UNCHANGED <<clock, sweep, lastOp, nextId, deleted, poolVars, callerVars, sessionVars, linkVars>>

SrvKill(sid) ==
    /\ LET r == srv_kill_session(sessions, sid)
       IN sessions' = r.db /\ Respond("kill", sid, r)
    /\ UNCHANGED <<clock, sweep, lastOp, nextId, deleted, poolVars, callerVars, sessionVars, linkVars>>

SrvList ==
    /\ LET r == srv_list_sessions(sessions, clock)
       IN resp' = [op |-> "list", sid |-> 0, code |-> r.code,
                   body |-> {s.session_id : s \in r.body},
                   existed |-> FALSE, killed |-> FALSE]
    /\ UNCHANGED <<sessions, clock, sweep, lastOp, nextId, deleted, poolVars, callerVars, sessionVars, linkVars>>

\* DELETE /sessions/stale: the handler runs cleanup_stale_sessions to its end
SrvCleanup(t) ==
    /\ sweep = NoSweep
    /\ LET r == cleanup_delete(sessions, cleanup_threshold(clock, t))
       IN /\ sessions' = r.db
          /\ resp' = [op |-> "cleanup", sid |-> 0, code |-> 200, body |-> r.ret,
                      existed |-> FALSE, killed |-> FALSE]
    /\ UNCHANGED <<clock, sweep, lastOp, nextId, deleted, poolVars, callerVars, sessionVars, linkVars>>

NextServer ==
    \/ Tick
    \/ \E t \in OlderThan : SrvCleanup(t)
    \/ \E app \in Apps, user \in Users : SrvCreate(app, user)
    \/ \E sid \in SessionIds : SrvDelete(sid)
    \/ \E sid \in SessionIds : SrvHeartbeat(sid)
    \/ \E sid \in SessionIds, u \in StatusUpdates : SrvUpdateStatus(sid, u[1], u[2])
    \/ \E sid \in SessionIds : SrvKill(sid)
    \/ SrvList

SpecServer == Init /\ [][NextServer]_vars

\* ------------------------------------------------ callers of the pool functions
storeServerVars == <<sessions, clock, sweep, lastOp, nextId, resp, deleted>>

LockedAt_terminate == {"terminate"}

\* the positions of a caller inside a "with _pool_lock:" block.  Each block is
\* one step of the model, and pool.terminate() comes after the block of
\* shutdown_pool has been left: no position between two steps holds the lock.
LockedAt == {}

PoolLocked == \E c \in Callers : cpc[c] \in LockedAt

CallGetPool(c) ==
    /\ cpc[c] = "idle"
    /\ ~PoolLocked
    /\ pool = NoPool => made < MaxPools
    /\ LET r == get_pool(pool, made + 1)
       IN /\ pool' = r.pool
          /\ made' = IF pool = NoPool THEN made + 1 ELSE made
          /\ got' = [got EXCEPT ![c] = r.ret]
    /\ lastCall' = <<c, "get_pool">>
    /\ UNCHANGED <<active, terminated, cpc, cpool, decAtZero, storeServerVars, sessionVars, linkVars>>

CallIncrement(c) ==
    /\ cpc[c] = "idle"
    /\ ~PoolLocked
    /\ active < MaxActive
    /\ active' = increment_sessions(active)
    /\ lastCall' = <<c, "increment_sessions">>
    /\ UNCHANGED <<pool, made, terminated, cpc, cpool, got, decAtZero, storeServerVars, sessionVars, linkVars>>

\* decrement_sessions: the critical section, then "if count == 0: shutdown_pool()"
CallDecrement(c) ==
    /\ cpc[c] = "idle"
    /\ ~PoolLocked
    /\ active' = decrement_sessions(active)
    /\ cpc' = [cpc EXCEPT ![c] = IF active' = 0 THEN "shutdown" ELSE "idle"]
    /\ decAtZero' = (decAtZero \/ active = 0)
    /\ lastCall' = <<c, "decrement_sessions">>
    /\ UNCHANGED <<pool, made, terminated, cpool, got, storeServerVars, sessionVars, linkVars>>

\* shutdown_pool called on its own (it is registered with atexit)
CallShutdown(c) ==
    /\ cpc[c] = "idle"
    /\ cpc' = [cpc EXCEPT ![c] = "shutdown"]
    /\ lastCall' = <<c, "shutdown_pool">>
    /\ UNCHANGED <<poolVars, cpool, got, decAtZero, storeServerVars, sessionVars, linkVars>>

ShutdownLock(c) ==
    /\ cpc[c] = "shutdown"
    /\ ~PoolLocked
    /\ LET r == shutdown_pool_lock(pool)
       IN /\ pool' = r.pool
          /\ cpool' = [cpool EXCEPT ![c] = r.local]
          /\ cpc' = [cpc EXCEPT ![c] = IF r.return THEN "idle" ELSE "terminate"]
    /\ lastCall' = <<c, "shutdown_pool.lock">>
    /\ UNCHANGED <<active, made, terminated, got, decAtZero, storeServerVars, sessionVars, linkVars>>

\* pool.terminate(), outside the lock; an exception it raises is logged and
\* shutdown_pool returns as it does otherwise
Terminate(c, raised) ==
    /\ cpc[c] = "terminate"
    /\ terminated' = terminated \cup {cpool[c]}
    /\ cpc' = [cpc EXCEPT ![c] = "idle"]
    /\ lastCall' = <<c, IF raised THEN "shutdown_pool.terminate raised"
                                  ELSE "shutdown_pool.terminate">>
    /\ UNCHANGED <<pool, active, made, cpool, got, decAtZero, storeServerVars, sessionVars, linkVars>>

NextPool ==
    \/ \E c \in Callers : CallGetPool(c)
    \/ \E c \in Callers : CallIncrement(c)
    \/ \E c \in Callers : CallDecrement(c)
    \/ \E c \in Callers : CallShutdown(c)
    \/ \E c \in Callers : ShutdownLock(c)
    \/ \E c \in Callers, raised \in BOOLEAN : Terminate(c, raised)

SpecPool == Init /\ [][NextPool]_vars

\* --------------------------- app_pool.py sessions and their SessionClient
\* Each session has the document (main) thread M and the client's heartbeat
\* thread H.  Document-side handlers (PoolApp.run, on_click, _destroy_session,
\* the session-destroyed and atexit hooks) run on the one event loop: one at a
\* time, but interleaved with every heartbeat thread.  The monitoring server is
\* remote: what a heartbeat request answers is an input.
M(a) == <<a, "M">>
H(a) == <<a, "H">>
HbAnswers == {"fail", "alive", "kill"}
outsideApp == <<storeServerVars, callerVars, linkVars>>

AfterError_exit == "exit"

\* heartbeat_loop: "except Exception: pass" inside the while loop
AfterError == "wait"

AfterStop_again == "wait"

\* heartbeat_loop: "while not self._stop_heartbeat.wait(interval)" ends the
\* loop, and the thread, when the wait finds the event set
AfterStop == "exit"

AfterKill_again == "wait"

\* heartbeat_loop: "self._handle_kill_request()" is followed by "return"
AfterKill == "exit"

AfterLoop_early(t, i, n) ==
    IF frame[t] = "kill" THEN (IF i <= n THEN "loop" ELSE "handoff") ELSE "set"

\* where a thread goes when "for cb in callbacks" has no further element:
\* _handle_kill_request goes on to its hand-off, stop to its teardown
AfterLoop(t, i, n) ==
    IF i <= n THEN "loop" ELSE IF frame[t] = "kill" THEN "handoff" ELSE "set"

\* the loop's locals, dead once the loop is left
LoopLocals(t, i, cb) ==
    IF i <= Len(cb) THEN [idx |-> i, callbacks |-> cb] ELSE [idx |-> 1, callbacks |-> <<>>]

\* stop() calls made on the document side so far, over the sessions of S
RECURSIVE StopCalls(_)
StopCalls(S) ==
    IF S = {} THEN 0
    ELSE LET a == CHOOSE x \in S : TRUE IN stops[a] + StopCalls(S \ {a})

ioFree(a) == \A b \in AppSessions \ {a} : pc[M(b)] \in {"new", "live"}

\* PoolApp.run: SessionClient.get_tracker -> __init__ (register, start the
\* heartbeat thread only if connected, register cleanup)
RunGetTracker(a, conn, doc) ==
    /\ pc[M(a)] = "new"
    /\ ioFree(a)
    /\ connected' = [connected EXCEPT ![a] = conn]
    /\ hasDoc' = [hasDoc EXCEPT ![a] = doc]
    /\ inReg' = [inReg EXCEPT ![a] = TRUE]
    /\ pc' = [pc EXCEPT ![M(a)] = "run_pool", ![H(a)] = IF conn THEN "wait" ELSE "off"]
    /\ UNCHANGED <<frame, cbLocal, aliased, idx, lpool, cbs, stopHb, nextTick, attempt,
                   closed, appVars, histVars, poolVars, outsideApp>>

\* pool = get_pool()
RunGetPool(a) ==
    /\ pc[M(a)] = "run_pool"
    /\ pool = NoPool => made < MaxPools
    /\ LET r == get_pool(pool, made + 1)
       IN /\ pool' = r.pool
          /\ made' = IF pool = NoPool THEN made + 1 ELSE made
          /\ mypool' = [mypool EXCEPT ![a] = r.ret]
    /\ pc' = [pc EXCEPT ![M(a)] = "run_inc"]
    /\ UNCHANGED <<active, terminated, frame, cbLocal, aliased, idx, lpool, clientVars,
                   stopEvent, wstate, counted, released, peers, histVars, outsideApp>>

\* _increment_sessions()
RunIncrement(a) ==
    /\ pc[M(a)] = "run_inc"
    /\ active' = increment_sessions(active)
    /\ counted' = [counted EXCEPT ![a] = TRUE]
    /\ pc' = [pc EXCEPT ![M(a)] = "run_onkill"]
    /\ UNCHANGED <<pool, made, terminated, frame, cbLocal, aliased, idx, lpool, clientVars,
                   stopEvent, mypool, wstate, released, peers, histVars, outsideApp>>

\* stop_event = get_manager().Event(); tracker.on_kill(kill_handler): append to
\* the client's list object, which a thread that has read it and not yet
\* replaced it sees too
RunOnKill(a) ==
    /\ pc[M(a)] = "run_onkill"
    /\ cbs' = [cbs EXCEPT ![a] = Append(@, "kill_handler")]
    /\ cbLocal' = [t \in Threads |->
                      IF t[1] = a /\ aliased[t]
                      THEN Append(cbLocal[t], "kill_handler") ELSE cbLocal[t]]
    /\ pc' = [pc EXCEPT ![M(a)] = "live"]
    /\ UNCHANGED <<frame, aliased, idx, lpool, stopHb, connected, hasDoc, nextTick, attempt,
                   closed, inReg, appVars, histVars, poolVars, outsideApp>>

\* on_click: stop_event.clear(), then two pool.apply(worker, ...) awaited; the
\* button stays disabled until both workers return; apply on a terminated pool
\* raises
OnClick(a) ==
    /\ pc[M(a)] = "live"
    /\ ioFree(a)
    /\ stops[a] = 0
    /\ wstate[a] # "running"
    /\ stopEvent' = [stopEvent EXCEPT ![a] = FALSE]
    /\ wstate' = [wstate EXCEPT ![a] = IF mypool[a] \in terminated THEN @ ELSE "running"]
    /\ UNCHANGED <<threadVars, clientVars, mypool, counted, released, peers, histVars,
                   poolVars, outsideApp>>

\* worker: stop_event.wait(5) returned True
WorkerExit(a) ==
    /\ wstate[a] = "running"
    /\ stopEvent[a]
    /\ wstate' = [wstate EXCEPT ![a] = "idle"]
    /\ UNCHANGED <<threadVars, clientVars, stopEvent, mypool, counted, released, peers,
                   histVars, poolVars, outsideApp>>

\* _destroy_session, run from the document's next-tick queue: self.stop()
DestroySession(a) ==
    /\ pc[M(a)] = "live"
    /\ ioFree(a)
    /\ nextTick[a]
    /\ StopCalls(AppSessions) < MaxStops
    /\ nextTick' = [nextTick EXCEPT ![a] = FALSE]
    /\ stops' = [stops EXCEPT ![a] = @ + 1]
    /\ frame' = [frame EXCEPT ![M(a)] = "stop"]
    /\ pc' = [pc EXCEPT ![M(a)] = "read"]
    /\ UNCHANGED <<cbLocal, aliased, idx, lpool, cbs, stopHb, connected, hasDoc, attempt,
                   closed, inReg, appVars, cbRuns, deleteSent, stopEnded, kills, poolVars, outsideApp>>

\* cleanup(): the on_session_destroyed hook or the atexit hook calls self.stop()
Cleanup(a) ==
    /\ pc[M(a)] = "live"
    /\ ioFree(a)
    /\ StopCalls(AppSessions) < MaxStops
    /\ stops' = [stops EXCEPT ![a] = @ + 1]
    /\ frame' = [frame EXCEPT ![M(a)] = "stop"]
    /\ pc' = [pc EXCEPT ![M(a)] = "read"]
    /\ UNCHANGED <<cbLocal, aliased, idx, lpool, clientVars, appVars, cbRuns, deleteSent,
                   stopEnded, kills, poolVars, outsideApp>>

\* callbacks = self._on_kill_callbacks          (stop and _handle_kill_request)
ReadCbs(t) ==
    /\ pc[t] = "read"
    /\ cbLocal' = [cbLocal EXCEPT ![t] = cbs[t[1]]]
    /\ aliased' = [aliased EXCEPT ![t] = TRUE]
    /\ pc' = [pc EXCEPT ![t] = "swap"]
    /\ UNCHANGED <<frame, idx, lpool, clientVars, appVars, histVars, poolVars, outsideApp>>

\* self._on_kill_callbacks = []
SwapCbs(t) ==
    /\ pc[t] = "swap"
    /\ cbs' = [cbs EXCEPT ![t[1]] = <<>>]
    /\ aliased' = [u \in Threads |-> IF u[1] = t[1] THEN FALSE ELSE aliased[u]]
    /\ idx' = [idx EXCEPT ![t] = 1]
    /\ cbLocal' = [cbLocal EXCEPT ![t] = LoopLocals(t, 1, @).callbacks]
    /\ pc' = [pc EXCEPT ![t] = AfterLoop(t, 1, Len(cbLocal[t]))]
    /\ UNCHANGED <<frame, lpool, stopHb, connected, hasDoc, nextTick, attempt,
                   closed, inReg, appVars, histVars, poolVars, outsideApp>>

\* for cb in callbacks: cb()  -- kill_handler begins: stop_event.set()
CallKillHandler(t) ==
    /\ pc[t] = "loop"
    /\ idx[t] <= Len(cbLocal[t])
    /\ cbLocal[t][idx[t]] = "kill_handler"
    /\ stopEvent' = [stopEvent EXCEPT ![t[1]] = TRUE]
    /\ cbRuns' = [cbRuns EXCEPT ![t[1]] = @ + 1]
    /\ pc' = [pc EXCEPT ![t] = "kh_dec"]
    /\ UNCHANGED <<frame, cbLocal, aliased, idx, lpool, clientVars, mypool, wstate, counted,
                   released, peers, deleteSent, stops, stopEnded, kills, poolVars, outsideApp>>

\* kill_handler returns (an exception it raises is caught): next callback
NextCb(t) ==
    /\ idx' = [idx EXCEPT ![t] = LoopLocals(t, @ + 1, cbLocal[t]).idx]
    /\ cbLocal' = [cbLocal EXCEPT ![t] = LoopLocals(t, idx[t] + 1, @).callbacks]
    /\ pc' = [pc EXCEPT ![t] = AfterLoop(t, idx[t] + 1, Len(cbLocal[t]))]

\* kill_handler: _decrement_sessions(), the critical section and "if count == 0"
KhDecrement(t) ==
    /\ pc[t] = "kh_dec"
    /\ active' = decrement_sessions(active)
    /\ released' = [released EXCEPT ![t[1]] = TRUE]
    /\ peers' = [peers EXCEPT ![t[1]] =
                    IF released[t[1]] THEN @
                    ELSE {b \in AppSessions \ {t[1]} : counted[b] /\ ~released[b]}]
    /\ IF active' = 0
       THEN pc' = [pc EXCEPT ![t] = "kh_lock"] /\ UNCHANGED <<idx, cbLocal>>
       ELSE NextCb(t)
    /\ UNCHANGED <<pool, made, terminated, frame, aliased, lpool, clientVars,
                   stopEvent, mypool, wstate, counted, histVars, outsideApp>>

\* shutdown_pool, the critical section
KhShutdownLock(t) ==
    /\ pc[t] = "kh_lock"
    /\ LET r == shutdown_pool_lock(pool)
       IN /\ pool' = r.pool
          /\ lpool' = [lpool EXCEPT ![t] = r.local]
          /\ IF r.return
             THEN NextCb(t)
             ELSE pc' = [pc EXCEPT ![t] = "kh_term"] /\ UNCHANGED <<idx, cbLocal>>
    /\ UNCHANGED <<active, made, terminated, frame, aliased, clientVars, appVars,
                   histVars, outsideApp>>

\* shutdown_pool: pool.terminate() kills the pool's subprocesses, the workers of
\* every session running on that instance
KhTerminate(t) ==
    /\ pc[t] = "kh_term"
    /\ terminated' = terminated \cup {lpool[t]}
    /\ wstate' = [b \in AppSessions |->
                     IF wstate[b] = "running" /\ mypool[b] = lpool[t]
                     THEN "killed" ELSE wstate[b]]
    /\ lpool' = [lpool EXCEPT ![t] = NoPool]
    /\ NextCb(t)
    /\ UNCHANGED <<pool, active, made, frame, aliased, clientVars, stopEvent,
                   mypool, counted, released, peers, histVars, outsideApp>>

\* _handle_kill_request with a document and session context:
\* doc.add_next_tick_callback(self._destroy_session); heartbeat_loop returns
HandoffTick(a) ==
    /\ pc[H(a)] = "handoff"
    /\ hasDoc[a]
    /\ nextTick' = [nextTick EXCEPT ![a] = TRUE]
    /\ frame' = [frame EXCEPT ![H(a)] = "none"]
    /\ pc' = [pc EXCEPT ![H(a)] = AfterKill]
    /\ UNCHANGED <<cbLocal, aliased, idx, lpool, cbs, stopHb, connected, hasDoc, attempt,
                   closed, inReg, appVars, histVars, poolVars, outsideApp>>

\* _handle_kill_request without one: self.stop(), on the heartbeat thread
HandoffStop(a) ==
    /\ pc[H(a)] = "handoff"
    /\ ~hasDoc[a]
    /\ attempt' = [attempt EXCEPT ![a] = 1]
    /\ frame' = [frame EXCEPT ![H(a)] = "stop"]
    /\ pc' = [pc EXCEPT ![H(a)] = "read"]
    /\ UNCHANGED <<cbLocal, aliased, idx, lpool, cbs, stopHb, connected, hasDoc, nextTick,
                   closed, inReg, appVars, histVars, poolVars, outsideApp>>

\* stop on the main thread: self._stop_heartbeat.set(), then join(timeout=1)
\* returns, the heartbeat thread ended or not
StopSetMain(a) ==
    /\ pc[M(a)] = "set"
    /\ stopHb' = [stopHb EXCEPT ![a] = TRUE]
    /\ pc' = [pc EXCEPT ![M(a)] = "delete"]
    /\ UNCHANGED <<frame, cbLocal, aliased, idx, lpool, cbs, connected, hasDoc, nextTick,
                   attempt, closed, inReg, appVars, histVars, poolVars, outsideApp>>

\* stop on the heartbeat thread: self._stop_heartbeat.set(); the thread is alive
\* and is the caller, so Thread.join raises RuntimeError and stop() ends there.
\* Raised in the try branch of _handle_kill_request it lands in
\* "except Exception: self.stop()"; raised there it lands in heartbeat_loop's
\* "except Exception: pass", and the loop's next wait finds the event set.
StopSetSelf(a) ==
    /\ pc[H(a)] = "set"
    /\ stopHb' = [stopHb EXCEPT ![a] = TRUE]
    /\ stopEnded' = [stopEnded EXCEPT ![a] = TRUE]
    /\ attempt' = [attempt EXCEPT ![a] = IF @ = 1 THEN 2 ELSE 0]
    /\ frame' = [frame EXCEPT ![H(a)] = IF attempt[a] = 1 THEN "stop" ELSE "none"]
    /\ pc' = [pc EXCEPT ![H(a)] = IF attempt[a] = 1 THEN "read" ELSE "exit"]
    /\ UNCHANGED <<cbLocal, aliased, idx, lpool, cbs, connected, hasDoc, nextTick,
                   closed, inReg, appVars, cbRuns, deleteSent, stops, kills, poolVars, outsideApp>>

\* stop: if self._connected: self._client.delete(...), errors ignored; a closed
\* httpx client raises before it sends
StopDelete(a) ==
    /\ pc[M(a)] = "delete"
    /\ deleteSent' = [deleteSent EXCEPT ![a] = IF connected[a] /\ ~closed[a] THEN @ + 1 ELSE @]
    /\ pc' = [pc EXCEPT ![M(a)] = "close"]
    /\ UNCHANGED <<frame, cbLocal, aliased, idx, lpool, clientVars, appVars, cbRuns, stops,
                   stopEnded, kills, poolVars, outsideApp>>

\* stop: self._client.close()
StopClose(a) ==
    /\ pc[M(a)] = "close"
    /\ closed' = [closed EXCEPT ![a] = TRUE]
    /\ pc' = [pc EXCEPT ![M(a)] = "pop"]
    /\ UNCHANGED <<frame, cbLocal, aliased, idx, lpool, cbs, stopHb, connected, hasDoc,
                   nextTick, attempt, inReg, appVars, histVars, poolVars, outsideApp>>

\* stop: SessionClient._instances.pop(self._panel_session_id, None); stop returns
StopPop(a) ==
    /\ pc[M(a)] = "pop"
    /\ inReg' = [inReg EXCEPT ![a] = FALSE]
    /\ stopEnded' = [stopEnded EXCEPT ![a] = TRUE]
    /\ frame' = [frame EXCEPT ![M(a)] = "none"]
    /\ pc' = [pc EXCEPT ![M(a)] = "live"]
    /\ UNCHANGED <<cbLocal, aliased, idx, lpool, cbs, stopHb, connected, hasDoc, nextTick,
                   attempt, closed, appVars, cbRuns, deleteSent, stops, kills, poolVars, outsideApp>>

\* heartbeat_loop: self._stop_heartbeat.wait(interval) finds the event set
HbStopped(a) ==
    /\ pc[H(a)] = "wait"
    /\ stopHb[a]
    /\ pc' = [pc EXCEPT ![H(a)] = AfterStop]
    /\ UNCHANGED <<frame, cbLocal, aliased, idx, lpool, clientVars, appVars, histVars,
                   poolVars, outsideApp>>

\* heartbeat_loop: the wait times out, the POST and what it answers;
\* kill_requested leads into _handle_kill_request, anything else back to the
\* wait; a closed httpx client raises
HbBeatUpTo(a, r, maxKills) ==
    /\ pc[H(a)] = "wait"
    /\ ~stopHb[a]
    /\ closed[a] => r = "fail"
    /\ r = "kill" => kills < maxKills
    /\ kills' = IF r = "kill" THEN kills + 1 ELSE kills
    /\ frame' = [frame EXCEPT ![H(a)] = IF r = "kill" THEN "kill" ELSE "none"]
    /\ pc' = [pc EXCEPT ![H(a)] = IF r = "kill" THEN "read" ELSE "wait"]
    /\ UNCHANGED <<cbLocal, aliased, idx, lpool, clientVars, appVars, cbRuns, deleteSent,
                   stops, stopEnded, poolVars, outsideApp>>

HbBeat(a, r) == HbBeatUpTo(a, r, MaxKills)

\* the steps of the sessions of S
NextAppOf(S) ==
    \/ \E a \in S, conn \in BOOLEAN, doc \in BOOLEAN : RunGetTracker(a, conn, doc)
    \/ \E a \in S : RunGetPool(a)
    \/ \E a \in S : RunIncrement(a)
    \/ \E a \in S : RunOnKill(a)
    \/ \E a \in S : OnClick(a)
    \/ \E a \in S : WorkerExit(a)
    \/ \E a \in S : DestroySession(a)
    \/ \E a \in S : Cleanup(a)
    \/ \E t \in S \X {"M", "H"} : ReadCbs(t)
    \/ \E t \in S \X {"M", "H"} : SwapCbs(t)
    \/ \E t \in S \X {"M", "H"} : CallKillHandler(t)
    \/ \E t \in S \X {"M", "H"} : KhDecrement(t)
    \/ \E t \in S \X {"M", "H"} : KhShutdownLock(t)
    \/ \E t \in S \X {"M", "H"} : KhTerminate(t)
    \/ \E a \in S : HandoffTick(a)
    \/ \E a \in S : HandoffStop(a)
    \/ \E a \in S : StopSetMain(a)
    \/ \E a \in S : StopSetSelf(a)
    \/ \E a \in S : StopDelete(a)
    \/ \E a \in S : StopClose(a)
    \/ \E a \in S : StopPop(a)
    \/ \E a \in S : HbStopped(a)
    \/ \E a \in S, r \in HbAnswers : HbBeat(a, r)

NextApp == NextAppOf(AppSessions)

SpecApp == Init /\ [][NextApp]_vars

\* ------------- a SessionClient on server.py and a SessionTracker on session_db
\* The client's requests are answered by the handlers of server.py when the
\* server is reachable ("up"); an unreachable server makes the request raise.
\* The tracker calls session_db itself.  Kill requests and deletions by an
\* operator are DbRequestKill and DbRemove.
TrkId == NumIds

\* task(): the status update of the entry, and of the finally clause (whether
\* the block raised or not)
task_enter(name) == <<"running", name>>

task_exit_no_finally(raised) == IF raised THEN <<>> ELSE <<"idle", None>>

task_exit(raised) == <<"idle", None>>

client_set_status_always(c, db, w, u, up, now) ==
    IF up /\ c.st = "up"
    THEN [db |-> srv_update_status(db, c.sid, u[1], u[2], now).db,
          wire |-> [w EXCEPT !.calls = @ \cup {"status"}, !.lastStatus = u]]
    ELSE [db |-> db, wire |-> [w EXCEPT !.lastStatus = u]]

\* SessionClient.set_status(u): nothing when not connected; else the PUT, whose
\* failure (server unreachable, client closed) is logged
client_set_status(c, db, w, u, up, now) ==
    IF ~c.connected THEN [db |-> db, wire |-> w]
    ELSE IF up /\ c.st = "up"
    THEN [db |-> srv_update_status(db, c.sid, u[1], u[2], now).db,
          wire |-> [w EXCEPT !.calls = @ \cup {"status"}, !.lastStatus = u]]
    ELSE [db |-> db, wire |-> [w EXCEPT !.lastStatus = u]]

\* SessionClient.__init__: _register_session, then the heartbeat thread only
\* if connected
LkInit(up, app) ==
    /\ cl.st = "none"
    /\ IF up
       THEN /\ nextId < NumIds
            /\ LET r == srv_create_session(sessions, nextId + 1, app, None, clock)
               IN /\ sessions' = r.db
                  /\ cl' = [NoClient EXCEPT !.st = "up", !.connected = TRUE,
                                            !.sid = r.body, !.hb = "wait"]
            /\ nextId' = nextId + 1
       ELSE /\ cl' = [NoClient EXCEPT !.st = "up"]
            /\ UNCHANGED <<sessions, nextId>>
    /\ UNCHANGED <<clock, sweep, lastOp, resp, deleted, trk, wire,
                   poolVars, callerVars, sessionVars>>

\* heartbeat_loop, one cycle: the POST; raise_for_status() raises on 404 and
\* "except Exception: pass" goes back to the wait; kill_requested in a 200
\* answer leads to _handle_kill_request and the return
LkBeat(up) ==
    /\ cl.hb = "wait"
    /\ ~cl.stopHb
    /\ IF up
       THEN LET r == srv_heartbeat(sessions, cl.sid, clock)
            IN /\ sessions' = r.db
               /\ cl' = IF r.code = 200 /\ r.body = TRUE
                        THEN [cl EXCEPT !.hb = "exit", !.killed = TRUE]
                        ELSE IF r.code = 200 THEN cl
                        ELSE [cl EXCEPT !.hb = AfterError]
               /\ wire' = [wire EXCEPT !.hbTick = 1 - @,
                                       !.calls = @ \cup {"heartbeat"},
                                       !.gone = @ \/ r.code = 404]
       ELSE /\ wire' = [wire EXCEPT !.hbTick = 1 - @]
            /\ cl' = [cl EXCEPT !.hb = AfterError]
            /\ UNCHANGED sessions
    /\ UNCHANGED <<clock, sweep, lastOp, serverVars, trk, poolVars, callerVars, sessionVars>>

\* heartbeat_loop: the wait finds _stop_heartbeat set
LkBeatStopped ==
    /\ cl.hb = "wait"
    /\ cl.stopHb
    /\ cl' = [cl EXCEPT !.hb = AfterStop]
    /\ UNCHANGED <<storeServerVars, trk, wire, poolVars, callerVars, sessionVars>>

\* with tracker.task(name): entry
LkTaskEnter(up) ==
    /\ cl.st = "up"
    /\ cl.task = "out"
    /\ LET r == client_set_status(cl, sessions, wire, task_enter("task"), up, clock)
       IN sessions' = r.db /\ wire' = r.wire
    /\ cl' = [cl EXCEPT !.task = "in"]
    /\ UNCHANGED <<clock, sweep, lastOp, serverVars, trk, poolVars, callerVars, sessionVars>>

\* with tracker.task(name): the block returns or raises (the client may have
\* been stopped meanwhile)
LkTaskExit(raised, up) ==
    /\ cl.task = "in"
    /\ LET u == task_exit(raised)
           r == client_set_status(cl, sessions, wire, u, up, clock)
       IN IF u = <<>>
          THEN sessions' = sessions /\ wire' = [wire EXCEPT !.done = TRUE]
          ELSE sessions' = r.db /\ wire' = [r.wire EXCEPT !.done = TRUE]
    /\ cl' = [cl EXCEPT !.task = "out"]
    /\ UNCHANGED <<clock, sweep, lastOp, serverVars, trk, poolVars, callerVars, sessionVars>>

\* SessionClient.stop: signal the loop, DELETE if connected (errors ignored),
\* close
LkStop(up) ==
    /\ cl.st = "up"
    /\ cl' = [cl EXCEPT !.st = "stopped", !.stopHb = TRUE]
    /\ IF cl.connected /\ up
       THEN /\ sessions' = srv_delete_session(sessions, cl.sid).db
            /\ wire' = [wire EXCEPT !.calls = @ \cup {"delete"}]
       ELSE UNCHANGED <<sessions, wire>>
    /\ UNCHANGED <<clock, sweep, lastOp, serverVars, trk, poolVars, callerVars, sessionVars>>

\* SessionTracker.__init__: register_session, start the heartbeat thread
TrkInit(app) ==
    /\ trk.st = "none"
    /\ sessions' = register_session(sessions, TrkId, app, None, clock).db
    /\ trk' = [NoClient EXCEPT !.st = "up", !.connected = TRUE, !.sid = TrkId,
                               !.hb = "wait"]
    /\ UNCHANGED <<clock, sweep, lastOp, serverVars, cl, wire, poolVars, callerVars, sessionVars>>

\* SessionTracker heartbeat_loop: if check_kill_requested: _handle_kill_request; return
TrkCheck ==
    /\ trk.hb = "wait"
    /\ ~trk.stopHb
    /\ IF check_kill_requested(sessions, trk.sid)
       THEN /\ trk' = [trk EXCEPT !.hb = AfterKill, !.killed = TRUE]
            /\ wire' = [wire EXCEPT !.seen = TRUE]
       ELSE /\ trk' = [trk EXCEPT !.hb = "write"]
            /\ UNCHANGED wire
    /\ UNCHANGED <<storeServerVars, cl, poolVars, callerVars, sessionVars>>

\* SessionTracker heartbeat_loop: session_db.update_heartbeat(self.session_id)
TrkWrite ==
    /\ trk.hb = "write"
    /\ sessions' = update_heartbeat(sessions, trk.sid, clock).db
    /\ trk' = [trk EXCEPT !.hb = "wait"]
    /\ wire' = [wire EXCEPT !.trkTick = 1 - @]
    /\ UNCHANGED <<clock, sweep, lastOp, serverVars, cl, poolVars, callerVars, sessionVars>>

\* SessionTracker heartbeat_loop: a session_db call of the cycle raises
TrkFail ==
    /\ trk.hb \in {"wait", "write"}
    /\ trk.hb = "wait" => ~trk.stopHb
    /\ trk' = [trk EXCEPT !.hb = AfterError]
    /\ wire' = [wire EXCEPT !.trkFailed = TRUE]
    /\ UNCHANGED <<storeServerVars, cl, poolVars, callerVars, sessionVars>>

TrkStopped ==
    /\ trk.hb = "wait"
    /\ trk.stopHb
    /\ trk' = [trk EXCEPT !.hb = AfterStop]
    /\ UNCHANGED <<storeServerVars, cl, wire, poolVars, callerVars, sessionVars>>

\* SessionTracker.task: entry
TrkTaskEnter ==
    /\ trk.st = "up"
    /\ trk.task = "out"
    /\ LET u == task_enter("task")
       IN /\ sessions' = set_status(sessions, trk.sid, u[1], u[2], clock).db
          /\ wire' = [wire EXCEPT !.trkStatus = u]
    /\ trk' = [trk EXCEPT !.task = "in"]
    /\ UNCHANGED <<clock, sweep, lastOp, serverVars, cl, poolVars, callerVars, sessionVars>>

\* SessionTracker.task: the block returns or raises
TrkTaskExit(raised) ==
    /\ trk.task = "in"
    /\ LET u == task_exit(raised)
       IN IF u = <<>>
          THEN UNCHANGED <<sessions, wire>>
          ELSE /\ sessions' = set_status(sessions, trk.sid, u[1], u[2], clock).db
               /\ wire' = [wire EXCEPT !.trkStatus = u]
    /\ trk' = [trk EXCEPT !.task = "out"]
    /\ UNCHANGED <<clock, sweep, lastOp, serverVars, cl, poolVars, callerVars, sessionVars>>

\* SessionTracker.stop: signal the loop, remove_session
TrkStop ==
    /\ trk.st = "up"
    /\ trk' = [trk EXCEPT !.st = "stopped", !.stopHb = TRUE]
    /\ sessions' = remove_session(sessions, trk.sid).db
    /\ UNCHANGED <<clock, sweep, lastOp, serverVars, cl, wire, poolVars, callerVars, sessionVars>>

NextTrk ==
    \/ \E app \in Apps : TrkInit(app)
    \/ TrkCheck
    \/ TrkWrite
    \/ TrkStopped
    \/ TrkTaskEnter
    \/ \E raised \in BOOLEAN : TrkTaskExit(raised)
    \/ TrkStop

NextLink ==
    \/ Tick
    \/ \E sid \in SessionIds : DbRequestKill(sid)
    \/ \E sid \in SessionIds : DbRemove(sid)
    \/ \E up \in BOOLEAN, app \in Apps : LkInit(up, app)
    \/ \E up \in BOOLEAN : LkBeat(up)
    \/ LkBeatStopped
    \/ \E up \in BOOLEAN : LkTaskEnter(up)
    \/ \E raised \in BOOLEAN, up \in BOOLEAN : LkTaskExit(raised, up)
    \/ \E up \in BOOLEAN : LkStop(up)
    \/ NextTrk

SpecLink == Init /\ [][NextLink]_vars

\* the heartbeat loops keep running and the server keeps being reached
SpecLinkFair ==
    /\ SpecLink
    /\ WF_vars(LkBeat(TRUE))
    /\ WF_vars(TrkCheck)
    /\ WF_vars(TrkWrite)

\* -------------------------- the heartbeat loops with failing cycles
\* The client and the tracker from construction to stop, with requests that do
\* not reach the server and session_db calls that raise.
NextBeats ==
    \/ \E sid \in SessionIds : DbRequestKill(sid)
    \/ \E up \in BOOLEAN, app \in Apps : LkInit(up, app)
    \/ \E up \in BOOLEAN : LkBeat(up)
    \/ LkBeatStopped
    \/ \E up \in BOOLEAN : LkStop(up)
    \/ \E app \in Apps : TrkInit(app)
    \/ TrkCheck
    \/ TrkWrite
    \/ TrkFail
    \/ TrkStopped
    \/ TrkStop

SpecBeats == Init /\ [][NextBeats]_vars

\* the heartbeat threads are scheduled: a wait that finds the event set
\* returns, and a cycle that has begun is carried out
SpecBeatsFair ==
    /\ SpecBeats
    /\ WF_vars(LkBeatStopped)
    /\ WF_vars(TrkStopped)
    /\ WF_vars(TrkWrite \/ TrkFail)

\* ------------------------------- a client with several on_kill callbacks
\* The first pool session, whose client gets further callbacks, some of which
\* raise, registered before or after kill_handler.  The server goes on answering
\* kill_requested for as long as it is asked.
CbKinds == {"raises", "returns"}

cb_next_abort(i, n, raised) == IF raised THEN n + 1 ELSE i + 1

\* "for cb in callbacks: try: cb() except Exception: logger.warning(...)": the
\* index of the next iteration, whether cb returned or raised
cb_next(i, n, raised) == i + 1

\* tracker.on_kill(cb) for another callback
OnKillOther(a, cb) ==
    /\ pc[M(a)] \in {"run_onkill", "live"}
    /\ frame[M(a)] # "stop"
    /\ wire.others < MaxCbs
    /\ cbs' = [cbs EXCEPT ![a] = Append(@, cb)]
    /\ cbLocal' = [t \in Threads |->
                      IF t[1] = a /\ aliased[t]
                      THEN Append(cbLocal[t], cb) ELSE cbLocal[t]]
    /\ wire' = [wire EXCEPT !.others = @ + 1]
    /\ UNCHANGED <<pc, frame, aliased, idx, lpool, stopHb, connected, hasDoc, nextTick, attempt,
                   closed, inReg, appVars, histVars, poolVars, storeServerVars, callerVars,
                   cl, trk>>

\* for cb in callbacks: cb() returns or raises, the loop goes on
CallOther(t) ==
    /\ pc[t] = "loop"
    /\ idx[t] <= Len(cbLocal[t])
    /\ cbLocal[t][idx[t]] \in CbKinds
    /\ LET raised == cbLocal[t][idx[t]] = "raises"
           i == cb_next(idx[t], Len(cbLocal[t]), raised)
       IN /\ idx' = [idx EXCEPT ![t] = LoopLocals(t, i, cbLocal[t]).idx]
          /\ cbLocal' = [cbLocal EXCEPT ![t] = LoopLocals(t, i, @).callbacks]
          /\ pc' = [pc EXCEPT ![t] = AfterLoop(t, i, Len(cbLocal[t]))]
          /\ wire' = [wire EXCEPT !.raisedAt = IF raised
                                            THEN <<cbRuns[t[1]], Len(cbLocal[t]) - idx[t]>>
                                            ELSE @]
    /\ UNCHANGED <<frame, aliased, lpool, clientVars, appVars, histVars, poolVars,
                   storeServerVars, callerVars, cl, trk>>

NextCbs ==
    \/ NextAppOf({1})
    \/ \E r \in HbAnswers : HbBeatUpTo(1, r, MaxKills + 1)
    \/ \E cb \in CbKinds : OnKillOther(1, cb)
    \/ \E t \in {1} \X {"M", "H"} : CallOther(t)

SpecCbs == Init /\ [][NextCbs]_vars

\* ------------------ the two heartbeat loops: one pool session and a tracker
\* The SessionClient of the first pool session, answered as the registry
\* surface may answer, next to a SessionTracker whose kill flag an operator sets.
NextLoops ==
    \/ NextAppOf({1})
    \/ NextTrk
    \/ \E sid \in SessionIds : DbRequestKill(sid)

SpecLoops == Init /\ [][NextLoops]_vars

\* ------------------------------------------------ monitor.py: the Reaper
\* Time between two runs of the dashboard's refresh: the display threshold
\* (once, counted from the first instants), or the rest up to the deletion
\* threshold. Between the two requests of one load_sessions_data at most a
\* tick passes (httpx timeout 10 s).
Durations == {StaleMinutes * TicksPerMin, (ReapMinutes - StaleMinutes) * TicksPerMin}

Elapse(d) ==
    /\ clock + d <= ReapEnd
    /\ d = StaleMinutes * TicksPerMin => clock <= EndClock
    /\ resp.op # "load"
    /\ clock' = clock + d
    /\ UNCHANGED <<sessions, sweep, lastOp, serverVars, poolVars, callerVars, sessionVars, linkVars>>

\* load_sessions_data, first request: GET /sessions
LoadList ==
    /\ LET r == srv_list_sessions(sessions, clock)
       IN resp' = [op |-> "load", sid |-> 0, code |-> r.code,
                   body |-> {s.session_id : s \in r.body},
                   existed |-> FALSE, killed |-> FALSE,
                   stale |-> {s.session_id : s \in {u \in r.body : u.is_stale}}]
    /\ UNCHANGED <<sessions, clock, sweep, lastOp, nextId, deleted, poolVars, callerVars, sessionVars, linkVars>>

\* load_sessions_data, second request: DELETE /sessions/stale?older_than_minutes=10
LoadCleanup ==
    /\ resp.op = "load"
    /\ sweep = NoSweep
    /\ LET r == cleanup_delete(sessions, cleanup_threshold(clock, ReapMinutes))
       IN /\ sessions' = r.db
          /\ resp' = [op |-> "reaped", sid |-> 0, code |-> 200, body |-> r.ret,
                      existed |-> FALSE, killed |-> FALSE, stale |-> resp.stale]
    /\ UNCHANGED <<clock, sweep, lastOp, nextId, deleted, poolVars, callerVars, sessionVars, linkVars>>

NextReap ==
    \/ Tick
    \/ \E d \in Durations : Elapse(d)
    \/ \E sid \in SessionIds, app \in Apps, user \in Users : DbRegister(sid, app, user)
    \/ \E sid \in SessionIds : DbHeartbeat(sid)
    \/ LoadList
    \/ LoadCleanup

SpecReap == Init /\ [][NextReap]_vars

\* ===================================================================== claims

\* C1: every callback registered with on_kill runs exactly once over the
\* client's lifetime, whatever the order and interleaving of kill detection on
\* the heartbeat thread, stop() and the end-of-session cleanup.  Stated here in
\* its at-most-once half: no session's kill_handler is ever entered twice.
C1_CallbacksOnce == \A a \in AppSessions : cbRuns[a] <= 1

\* C2: the shared pool is torn down only when no session is counted on it: a
\* session that has incremented and not yet decremented never holds a
\* terminated pool instance.  Stated for the runs in which every kill_handler
\* has run at most once, so that one session decrements at most once.
C2_NoTerminatedPoolInUse ==
    (\A b \in AppSessions : cbRuns[b] <= 1)
        => \A a \in AppSessions :
              counted[a] /\ ~released[a] => mypool[a] \notin terminated

\* C3: kill_requested is monotonic per session: once request_kill has set it,
\* every later check_kill_requested on that id answers true for as long as the
\* row exists; no other store call (heartbeat, status update, re-registration,
\* kill check, sweep that leaves the row) resets it.
C3_KillSticky ==
    [][\A sid \in SessionIds :
          (check_kill_requested(sessions, sid) /\ sid \in DOMAIN sessions')
              => check_kill_requested(sessions', sid)]_vars

\* the only row of the table has its flag set and has just been re-registered
\* (the last call was register_session and the row is older than the call)
C3_Witness ==
    /\ lastOp.op = "register_session"
    /\ \E sid \in SessionIds :
          /\ DOMAIN sessions = {sid}
          /\ sessions[sid].kill_requested = 1
          /\ sessions[sid].last_heartbeat = isoformat(clock)
          /\ sessions[sid].last_heartbeat # sessions[sid].start_time

\* C4: stop() is idempotent and safe under concurrent invocation: each teardown
\* step (run the pending callbacks, send Delete, close the HTTP client, drop the
\* registry entry) is performed exactly once and calls after the first are
\* no-ops.  So no step is done twice, and once a stop() call has ended and no
\* thread is inside the teardown, the client is closed and out of the registry.
C4_StopOnce ==
    \A a \in AppSessions :
        /\ cbRuns[a] <= 1
        /\ deleteSent[a] <= 1
        /\ (stopEnded[a] /\ frame[M(a)] = "none" /\ frame[H(a)] = "none")
              => closed[a] /\ ~inReg[a]

\* C5: after a successful Delete(id) the list never includes id and a later
\* Heartbeat(id) is answered NotFound (404).
C5_DeletedStaysGone ==
    \A sid \in deleted :
        /\ sid \notin {s.session_id : s \in get_all_sessions(sessions, clock)}
        /\ (resp.op = "list" => sid \notin resp.body)
        /\ (resp.op = "heartbeat" /\ resp.sid = sid => resp.code = 404)

\* a heartbeat was sent for an id after its Delete succeeded, another row remains
C5_Witness ==
    /\ resp.op = "heartbeat"
    /\ resp.sid \in deleted
    /\ sessions # <<>>

\* C6: a sweep deletes exactly the rows with now - last_heartbeat > t, now being
\* the clock the sweep read, leaves the other rows as they were and returns the
\* number of rows deleted.
C6_SweepExact ==
    [][(sweep # NoSweep /\ sweep' = NoSweep) =>
          LET old == {x \in DOMAIN sessions :
                         sweep.now - fromisoformat(sessions[x].last_heartbeat)
                             > timedelta_minutes(sweep.t)}
          IN /\ DOMAIN sessions' = DOMAIN sessions \ old
             /\ \A x \in DOMAIN sessions' : sessions'[x] = sessions[x]
             /\ lastOp'.ret = Cardinality(old)]_vars

\* a sweep has deleted one row and kept another
C6_Witness ==
    /\ lastOp.op = "cleanup_stale_sessions"
    /\ lastOp.ret = 1
    /\ sessions # <<>>

\* C7: with A and B both counted on the pool, killing A sets only A's stop
\* event and lowers the count by one: as long as B has not released, the count
\* stays at least 1, B's pool instance is not terminated, B's workers are not
\* killed, and B's stop event is set by nothing but B's own kill_handler.
C7_KillOneKeepsPool ==
    \A a \in AppSessions : \A b \in peers[a] :
        ~released[b] =>
            /\ active >= 1
            /\ mypool[b] \notin terminated
            /\ wstate[b] # "killed"
            /\ (cbRuns[b] = 0 => ~stopEvent[b])

\* C8: through the registry surface, Heartbeat on an existing id answers 200 with
\* the row's kill flag (false before RequestKill, true after it), RequestKill on
\* an existing id answers 200, Delete answers 200 exactly when the row existed,
\* and Heartbeat on an absent id answers 404.
C8_Scenario ==
    /\ (resp.op = "create" => resp.code = 200 /\ ~resp.existed)
    /\ (resp.op = "heartbeat" =>
           IF resp.existed
           THEN resp.code = 200 /\ resp.body = resp.killed
           ELSE resp.code = 404)
    /\ (resp.op = "kill" /\ resp.existed => resp.code = 200)
    /\ (resp.op = "delete" => (resp.code = 200) = resp.existed)

\* C9: active_sessions is never negative, whatever the order and interleaving of
\* increment_sessions and decrement_sessions, a decrement with no increment
\* outstanding included.
C9_CountNonNegative == active >= 0

\* a decrement ran with the count already at zero
C9_Witness == decAtZero /\ lastCall[2] = "decrement_sessions"

\* C10: a get_pool call returns the current instance when there is one (the same
\* instance between two shutdowns), builds an instance never built before when
\* there is none, and never returns an instance terminate() has been called on.
C10_LazyPool ==
    [][\A c \in Callers :
          (lastCall' = <<c, "get_pool">> /\ <<lastCall, got, pool>>' # <<lastCall, got, pool>>)
              => /\ got'[c] # NoPool
                 /\ got'[c] = pool'
                 /\ got'[c] \notin terminated'
                 /\ (pool # NoPool => got'[c] = pool)
                 /\ (pool = NoPool => got'[c] \notin 1..made)]_vars

\* get_pool has returned a new instance after an earlier one was terminated
C10_Witness ==
    /\ lastCall[2] = "get_pool"
    /\ terminated # {}
    /\ got[lastCall[1]] \notin terminated
    /\ pool = got[lastCall[1]]

\* C11: kill delivery is level-triggered.  Once the kill flag is set on the
\* record of a running, connected client (SessionClient or SessionTracker),
\* then, the heartbeat loop and the server going on, the client eventually
\* runs its kill handling, unless it is stopped or its record deleted first.
C11_KillDelivered ==
    /\ (cl.st = "up" /\ cl.connected /\ check_kill_requested(sessions, cl.sid))
          ~> (cl.killed \/ cl.st = "stopped" \/ cl.sid \notin DOMAIN sessions)
    /\ (trk.st = "up" /\ check_kill_requested(sessions, trk.sid))
          ~> (trk.killed \/ trk.st = "stopped" \/ trk.sid \notin DOMAIN sessions)

\* C12: a client whose registration failed is offline for life: it has no
\* heartbeat loop and sends no heartbeat, its set_status and task() reach the
\* server with nothing (the block still runs to its end), its stop() sends no
\* Delete, and it never becomes connected.
C12_OfflineForLife ==
    /\ [](cl.st # "none" /\ ~cl.connected
            => /\ cl.hb = "off"
               /\ wire.hbTick = 0
               /\ wire.calls = {}
               /\ wire.lastStatus = <<>>)
    /\ [][cl.st # "none" /\ ~cl.connected => ~cl'.connected]_vars

C12_Witness ==
    /\ cl.st = "stopped"
    /\ ~cl.connected
    /\ wire.done
    /\ cl.task = "out"

\* C13: task(name) is scoped.  Entering the block issues (running, name);
\* leaving it, by return or by exception, issues (idle, none): the last status
\* update of a client with no block open and one block finished is the idle
\* reset, and the tracker's record, if it is still there, then reads idle with
\* no task.
C13_TaskScoped ==
    /\ [][/\ (cl.connected /\ cl.task = "out" /\ cl'.task = "in")
                => wire'.lastStatus = <<"running", "task">>
          /\ (cl.connected /\ cl.task = "in" /\ cl'.task = "out")
                => wire'.lastStatus = <<"idle", None>>
          /\ (trk.task = "out" /\ trk'.task = "in")
                => wire'.trkStatus = <<"running", "task">>
          /\ (trk.task = "in" /\ trk'.task = "out")
                => /\ wire'.trkStatus = <<"idle", None>>
                   /\ trk.sid \in DOMAIN sessions'
                        => /\ sessions'[trk.sid].status = "idle"
                           /\ sessions'[trk.sid].current_task = None]_vars
    /\ [](cl.connected /\ wire.done /\ cl.task = "out"
            => wire.lastStatus = <<"idle", None>>)

C13_Witness ==
    /\ cl.connected
    /\ wire.done
    /\ cl.task = "out"
    /\ wire.lastStatus = <<"idle", None>>
    /\ trk.st = "up"
    /\ trk.task = "out"
    /\ wire.trkStatus = <<"idle", None>>
    /\ sessions[trk.sid].status = "idle"

\* C14: a callback passed to on_kill after the list was consumed runs at once,
\* inside the on_kill call.  The list of session a was consumed when its
\* heartbeat thread is past "self._on_kill_callbacks = []" of
\* _handle_kill_request; PoolApp.run's on_kill call made then must run
\* kill_handler in the same step.
C14_LateCallbackRuns ==
    [][\A a \in AppSessions :
          (/\ pc[M(a)] = "run_onkill"
           /\ pc'[M(a)] = "live"
           /\ \/ pc[H(a)] \in {"loop", "kh_dec", "kh_lock", "kh_term", "handoff", "set", "exit"}
              \/ frame[H(a)] = "stop")
             => cbRuns'[a] = cbRuns[a] + 1]_vars

\* C15: NotFound means the session is gone and is never retried: once a
\* heartbeat of the client was answered 404 and its record is not in the
\* store, the client sends no further heartbeat.
C15_NotFoundNotRetried ==
    [][(wire.gone /\ cl.sid \notin DOMAIN sessions) => wire'.hbTick = wire.hbTick]_vars

\* C16: a session's stop event is one-way: once set it is never unset, by a
\* button click, by kill delivery or by stop.
C16_StopEventOneWay ==
    [][\A a \in AppSessions : stopEvent[a] => stopEvent'[a]]_vars

\* C17: RequestKill(id) answers ok (200) exactly when the record exists and
\* NotFound (404) otherwise, and a RequestKill on an already-killed session
\* leaves the store as it was.
C17_RequestKillAnswers ==
    [][\A sid \in SessionIds :
          SrvKill(sid) =>
             /\ (resp'.code = 200) = (sid \in DOMAIN sessions)
             /\ (resp'.code = 404) = (sid \notin DOMAIN sessions)
             /\ (check_kill_requested(sessions, sid) => sessions' = sessions)]_vars

\* C18: the display threshold (2 minutes) is shorter than the deletion
\* threshold (10 minutes); the Reaper's sweep deletes only rows whose last
\* heartbeat is more than 10 minutes old, so a row listed as stale stays until
\* then, and every row it deletes was listed as stale by the List of the same
\* run and is stale for a List at the sweep's instant.
C18_Age(x) == clock - fromisoformat(sessions[x].last_heartbeat)

C19_StopOrder ==
    [][\A a \in AppSessions :
          /\ \A t \in {M(a), H(a)} :
                (pc[t] # "set" /\ pc'[t] = "set") =>
                    /\ frame[t] = "stop"
                    /\ \/ pc[t] = "swap" /\ cbLocal[t] = <<>>
                       \/ pc[t] \in {"kh_dec", "kh_lock", "kh_term"} /\ idx[t] = Len(cbLocal[t])
                    /\ cbLocal'[t] = <<>>
                    /\ ~(stopHb'[a] /\ ~stopHb[a])
          /\ (stopHb'[a] /\ ~stopHb[a]) =>
                \E t \in {M(a), H(a)} : pc[t] = "set" /\ frame[t] = "stop" /\ cbLocal[t] = <<>>
          /\ deleteSent'[a] > deleteSent[a] =>
                /\ pc[M(a)] = "delete" /\ frame[M(a)] = "stop"
                /\ cbLocal[M(a)] = <<>>
                /\ stopHb[a] /\ ~closed[a] /\ inReg[a]
          /\ (closed'[a] /\ ~closed[a]) =>
                /\ pc[M(a)] = "close"
                /\ stopHb[a] /\ inReg[a]
                /\ connected[a] => deleteSent[a] >= 1
          /\ (inReg[a] /\ ~inReg'[a]) =>
                /\ pc[M(a)] = "pop"
                /\ stopHb[a] /\ closed[a]]_vars

\* a stop() that ran the session's callback itself and went through every step
C19_Witness ==
    \E a \in AppSessions :
       /\ stops[a] = 1 /\ stopEnded[a] /\ pc[M(a)] = "live"
       /\ kills = 0 /\ cbRuns[a] = 1
       /\ connected[a] /\ stopHb[a] /\ deleteSent[a] = 1 /\ closed[a] /\ ~inReg[a]
       /\ pc[H(a)] = "exit"

\* C20: a heartbeat answered with kill_requested = true starts kill handling,
\* and a heartbeat loop that has left its wait never returns to it: no further
\* heartbeat is sent.  The SessionTracker loop that sees the flag writes no
\* last_heartbeat in that cycle (the store is left as it is) or afterwards.
C20_KillEndsLoop ==
    /\ [][\A a \in AppSessions :
             /\ kills' > kills /\ pc[H(a)] = "wait" /\ pc'[H(a)] # "wait"
                   => pc'[H(a)] = "read" /\ frame'[H(a)] = "kill"
             /\ pc[H(a)] \notin {"wait", "off"} => pc'[H(a)] # "wait"]_vars
    /\ [][/\ (~wire.seen /\ wire'.seen) => sessions' = sessions /\ trk'.killed
          /\ wire.seen => wire'.trkTick = wire.trkTick /\ trk'.hb = "exit"]_vars
    /\ [](wire.seen => trk.hb = "exit" /\ trk.killed)

\* both loops have ended on a kill: the client's after a kill answer and the
\* hand-off, the tracker's after a cycle that wrote a heartbeat
C20_Witness ==
    /\ kills = 1 /\ pc[H(1)] = "exit" /\ nextTick[1] /\ cbRuns[1] = 1 /\ stops[1] = 0
    /\ wire.seen /\ wire.trkTick = 1 /\ trk.hb = "exit" /\ trk.st = "up"

\* C21: a heartbeat cycle that fails (the request raises, the answer is an
\* error status, a session_db call raises) leaves the client or tracker as it
\* was, with its loop at the wait of the next cycle: the loop does not end, no
\* teardown starts, however many failures came before.
C21_FailureSwallowed ==
    /\ [][(LkBeat(FALSE) \/ (LkBeat(TRUE) /\ srv_heartbeat(sessions, cl.sid, clock).code # 200))
             => cl' = cl /\ cl.hb = "wait" /\ wire'.hbTick # wire.hbTick]_vars
    /\ [][TrkFail => /\ trk' = [trk EXCEPT !.hb = "wait"]
                     /\ sessions' = sessions]_vars
    /\ [](cl.connected /\ ~cl.stopHb /\ ~cl.killed => cl.hb = "wait")
    /\ [](wire.trkFailed /\ ~trk.stopHb /\ ~trk.killed => trk.hb \in {"wait", "write"})

\* both loops are waiting for their next cycle after a failed one, the client's
\* after a request that never reached the server
C21_Witness ==
    /\ cl.st = "up" /\ cl.connected /\ cl.hb = "wait" /\ ~cl.stopHb
    /\ wire.hbTick = 1 /\ "heartbeat" \notin wire.calls
    /\ trk.st = "up" /\ trk.hb = "wait" /\ ~trk.stopHb /\ wire.trkFailed /\ wire.trkTick = 1

\* C22: on_kill appends, and the loop over the callbacks a stop() or a kill
\* handling took starts with the first and, after a callback has returned or
\* raised, goes on with the next one; after the last it goes on to the rest of
\* the teardown (the stop signal and Delete, or the hand-off to the document).
C22_InKh == {"kh_dec", "kh_lock", "kh_term"}

C22_CallbacksIsolated ==
    [][\A a \in AppSessions :
          /\ cbs'[a] # cbs[a] =>
                \/ cbs'[a] = <<>>
                \/ /\ Len(cbs'[a]) = Len(cbs[a]) + 1
                   /\ SubSeq(cbs'[a], 1, Len(cbs[a])) = cbs[a]
          /\ \A t \in {M(a), H(a)} :
                /\ (pc[t] = "swap" /\ pc'[t] = "loop") => idx'[t] = 1 /\ cbLocal'[t] = cbLocal[t]
                /\ (\/ /\ pc[t] = "loop"
                       /\ cbLocal[t][idx[t]] \in CbKinds
                       /\ (idx'[t] # idx[t] \/ pc'[t] # "loop")
                    \/ pc[t] \in C22_InKh /\ pc'[t] \notin C22_InKh)
                   => IF idx[t] < Len(cbLocal[t])
                      THEN /\ pc'[t] = "loop"
                           /\ idx'[t] = idx[t] + 1
                           /\ cbLocal'[t] = cbLocal[t]
                      ELSE pc'[t] = (IF frame[t] = "kill" THEN "handoff" ELSE "set")]_vars

\* a callback raised with kill_handler after it in the list; kill_handler ran,
\* the destruction was handed to the document, and stop() there sent the Delete
\* and released the client
C22_Witness ==
    /\ wire.others = 1 /\ wire.raisedAt = <<0, 1>> /\ cbRuns[1] = 1 /\ ~nextTick[1]
    /\ kills = 1 /\ hasDoc[1] /\ pc[H(1)] = "exit"
    /\ stops[1] = 1 /\ stopEnded[1] /\ deleteSent[1] = 1 /\ closed[1] /\ ~inReg[1]

\* C23: _destroy_session is put on the document's next-tick queue only by a
\* kill handling whose callbacks have all been invoked, and at most once for a
\* client: it is the handling of the first kill answer, and no second one
\* follows.
C23_HandoffOnce ==
    /\ [][\A a \in AppSessions :
             /\ (pc[H(a)] # "handoff" /\ pc'[H(a)] = "handoff") =>
                   /\ frame[H(a)] = "kill"
                   /\ \/ pc[H(a)] = "swap" /\ cbLocal[H(a)] = <<>>
                      \/ /\ pc[H(a)] \in {"loop", "kh_dec", "kh_lock", "kh_term"}
                         /\ idx[H(a)] = Len(cbLocal[H(a)])
                   /\ nextTick'[a] = nextTick[a]
             /\ (pc[H(a)] = "handoff" /\ pc'[H(a)] # "handoff" /\ hasDoc[a]) =>
                   /\ ~nextTick[a] /\ nextTick'[a]
                   /\ pc'[H(a)] = "exit"
             /\ (~nextTick[a] /\ nextTick'[a]) =>
                   /\ pc[H(a)] = "handoff" /\ cbLocal[H(a)] = <<>>
                   /\ hasDoc[a]
                   /\ kills = 1]_vars
    /\ [](kills <= 1)

\* a kill answer was handled, the callback has run, the hand-off was made and
\* the document has run _destroy_session, the only stop() of the client
C23_Witness ==
    /\ kills = 1 /\ hasDoc[1] /\ pc[H(1)] = "exit" /\ ~nextTick[1]
    /\ stops[1] = 1 /\ stopEnded[1] /\ pc[M(1)] = "live"
    /\ cbRuns[1] = 1 /\ deleteSent[1] = 1

\* C24: a stop() that kill handling called on the heartbeat thread, for want
\* of a document, completes every teardown step: once it has ended the Delete
\* has been sent, the HTTP client is closed and the registry entry is gone.
C24_DirectStopCompletes ==
    \A a \in AppSessions :
       (stopEnded[a] /\ stops[a] = 0 /\ ~hasDoc[a] /\ pc[H(a)] = "exit")
          => deleteSent[a] >= 1 /\ closed[a] /\ ~inReg[a]

C26_NoPoolAfterShutdown ==
    [][\A c \in Callers :
          /\ (cpc[c] = "shutdown" /\ cpc'[c] # "shutdown") =>
                /\ pool' = NoPool
                /\ IF pool = NoPool
                   THEN /\ cpc'[c] = "idle"
                        /\ <<active, made, terminated>>' = <<active, made, terminated>>
                   ELSE /\ cpc'[c] = "terminate"
                        /\ cpool'[c] = pool
          /\ (cpc[c] = "terminate" /\ cpc'[c] # "terminate") =>
                /\ cpc'[c] = "idle"
                /\ lastCall'[2] \in {"shutdown_pool.terminate", "shutdown_pool.terminate raised"}
                /\ pool' = pool
                /\ pool' # cpool[c]
                /\ cpool[c] \in terminated'
          /\ (lastCall' = <<c, "get_pool">> /\ pool = NoPool /\ pool' # NoPool) =>
                /\ pool' \notin 1..made
                /\ \A d \in Callers : cpc[d] = "terminate" => pool' # cpool[d]]_vars

\* terminate() has raised, shutdown_pool has returned, and no pool is held
C26_Witness ==
    \E c \in Callers :
       /\ lastCall = <<c, "shutdown_pool.terminate raised">>
       /\ cpc[c] = "idle"
       /\ pool = NoPool
       /\ cpool[c] \in terminated

\* C27: a session's workers stop running only with the session's own stop
\* event set: while it is unset they keep running, whatever happens to another
\* session's event.
C27_WorkerOwnFlag ==
    [][\A a \in AppSessions :
          (wstate[a] = "running" /\ wstate'[a] # "running") => stopEvent[a]]_vars

\* C28: every stored row has last_heartbeat >= start_time, as datetimes and as
\* the stored texts compare: a new row gets start_time = last_heartbeat = now,
\* status idle and kill_requested 0; a call on an existing row leaves its
\* start_time alone and writes nothing but the current time to last_heartbeat,
\* which never moves back.
C28_HeartbeatNotBeforeStart ==
    /\ [](\A sid \in DOMAIN sessions :
            /\ fromisoformat(sessions[sid].last_heartbeat)
                  >= fromisoformat(sessions[sid].start_time)
            /\ ~TextLess(sessions[sid].last_heartbeat, sessions[sid].start_time))
    /\ [][\A sid \in DOMAIN sessions' :
            IF sid \in DOMAIN sessions
            THEN /\ sessions'[sid].start_time = sessions[sid].start_time
                 /\ \/ sessions'[sid].last_heartbeat = sessions[sid].last_heartbeat
                    \/ /\ sessions'[sid].last_heartbeat = isoformat(clock)
                       /\ fromisoformat(sessions'[sid].last_heartbeat)
                             > fromisoformat(sessions[sid].last_heartbeat)
            ELSE /\ sessions'[sid].start_time = isoformat(clock)
                 /\ sessions'[sid].last_heartbeat = isoformat(clock)
                 /\ sessions'[sid].status = "idle"
                 /\ sessions'[sid].kill_requested = 0]_vars

\* one row was created on a whole second, has had its status updated and then a
\* heartbeat half a second later; another row was created at that later time
C28_Witness ==
    \E sid \in SessionIds, other \in SessionIds :
        /\ sid # other /\ DOMAIN sessions = {sid, other}
        /\ sessions[sid].status # "idle"
        /\ sessions[sid].start_time = isoformat(StartClock)
        /\ sessions[sid].last_heartbeat = isoformat(clock)
        /\ clock = StartClock + 1
        /\ sessions[other].start_time = isoformat(clock)
        /\ sessions[other].last_heartbeat = isoformat(clock)
        /\ sessions[other].status = "idle"

\* C29: active_sessions equals the number of sessions that have incremented the
\* count and whose kill_handler has not yet decremented it.
C29_CountMatchesSessions ==
    active = Cardinality({a \in AppSessions : counted[a] /\ ~released[a]})

\* C30: the registry holds a client's session id only between get_tracker and
\* the end of stop(): once a stop() of the client has ended, the id is no longer
\* in the registry.
C30_StopLeavesRegistry ==
    \A a \in AppSessions : stopEnded[a] => ~inReg[a]

\* ------------------------------------------ session_db with a log of its calls
\* The callers of session_db (SessionTracker.__init__, its heartbeat loop, its
\* task(), its stop(), and the monitor's kill button and sweep), each call
\* logged in resp: the function, the id, and whether the row existed before.
\* deleted holds the ids whose row a remove_session or a sweep took away.
StoreIds == {1, NumIds}
StoreApps == {"app", "pool_app"}
StoreUsers == {None, "user"}
NoAnswer == [code |-> 0, body |-> None]

StRegister(sid, app, user) ==
    /\ sessions' = register_session(sessions, sid, app, user, clock).db
    /\ Respond("register_session", sid, NoAnswer)
    /\ UNCHANGED <<clock, sweep, lastOp, nextId, deleted, poolVars, callerVars,
                   sessionVars, linkVars>>

StHeartbeat(sid) ==
    /\ sessions' = update_heartbeat(sessions, sid, clock).db
    /\ Respond("update_heartbeat", sid, NoAnswer)
    /\ UNCHANGED <<clock, sweep, lastOp, nextId, deleted, poolVars, callerVars,
                   sessionVars, linkVars>>

StSetStatus(sid, status, task) ==
    /\ sessions' = set_status(sessions, sid, status, task, clock).db
    /\ Respond("set_status", sid, NoAnswer)
    /\ UNCHANGED <<clock, sweep, lastOp, nextId, deleted, poolVars, callerVars,
                   sessionVars, linkVars>>

StRequestKill(sid) ==
    /\ sessions' = request_kill(sessions, sid).db
    /\ Respond("request_kill", sid, NoAnswer)
    /\ UNCHANGED <<clock, sweep, lastOp, nextId, deleted, poolVars, callerVars,
                   sessionVars, linkVars>>

StRemove(sid) ==
    /\ sessions' = remove_session(sessions, sid).db
    /\ deleted' = deleted \cup ({sid} \cap DOMAIN sessions)
    /\ Respond("remove_session", sid, NoAnswer)
    /\ UNCHANGED <<clock, sweep, lastOp, nextId, poolVars, callerVars,
                   sessionVars, linkVars>>

\* cleanup_stale_sessions(older_than_minutes)
StCleanup(t) ==
    /\ LET r == cleanup_delete(sessions, cleanup_threshold(clock, t))
       IN /\ sessions' = r.db
          /\ deleted' = deleted \cup (DOMAIN sessions \ DOMAIN r.db)
    /\ Respond("cleanup_stale_sessions", 0, NoAnswer)
    /\ UNCHANGED <<clock, sweep, lastOp, nextId, poolVars, callerVars,
                   sessionVars, linkVars>>

NextStore ==
    \/ Tick
    \/ \E sid \in StoreIds, app \in StoreApps, user \in StoreUsers : StRegister(sid, app, user)
    \/ \E sid \in StoreIds : StHeartbeat(sid)
    \/ \E sid \in StoreIds, u \in StatusUpdates : StSetStatus(sid, u[1], u[2])
    \/ \E sid \in StoreIds : StRequestKill(sid)
    \/ \E sid \in StoreIds : StRemove(sid)
    \/ \E t \in OlderThan : StCleanup(t)

SpecStore == Init /\ [][NextStore]_vars

\* C31: update_heartbeat, set_status and request_kill on an id that has no row
\* leave the table as it was, and a row appears in the table through nothing
\* but register_session: an id whose row was removed or swept stays absent
\* until it is registered again.
C31_AbsentIdUntouched ==
    /\ [][(resp'.op \in {"update_heartbeat", "set_status", "request_kill"}
             /\ ~resp'.existed)
            => sessions' = sessions]_vars
    /\ [][\A sid \in StoreIds :
            (sid \notin DOMAIN sessions /\ sid \in DOMAIN sessions')
               => resp'.op = "register_session" /\ resp'.sid = sid]_vars

\* the last call was one of the three on an id whose row had been removed or
\* swept before and is still absent, while another row is in the table
C31_Witness ==
    \E sid \in deleted :
        /\ resp.op \in {"update_heartbeat", "set_status", "request_kill"}
        /\ resp.sid = sid /\ ~resp.existed
        /\ sid \notin DOMAIN sessions
        /\ DOMAIN sessions # {}

\* C32: register_session on an id that has a row keeps the set of rows and
\* every other row, and in the row of that id writes the current time to
\* last_heartbeat and may change app_name and user_id: start_time, status,
\* current_task and kill_requested stay as they were.
C32_ReRegisterFrame ==
    [][(resp'.op = "register_session" /\ resp'.existed /\ clock' = clock)
          => LET sid == resp'.sid
             IN /\ DOMAIN sessions' = DOMAIN sessions
                /\ \A x \in DOMAIN sessions \ {sid} : sessions'[x] = sessions[x]
                /\ sessions'[sid].last_heartbeat = isoformat(clock)
                /\ sessions'[sid].app_name \in StoreApps
                /\ sessions'[sid].user_id \in StoreUsers
                /\ sessions'[sid].start_time = sessions[sid].start_time
                /\ sessions'[sid].status = sessions[sid].status
                /\ sessions'[sid].current_task = sessions[sid].current_task
                /\ sessions'[sid].kill_requested = sessions[sid].kill_requested]_vars

\* a running row with a pending kill request has just been registered again,
\* half a second after its creation, next to another row
C32_Witness ==
    /\ resp.op = "register_session" /\ resp.existed /\ resp.killed
    /\ Cardinality(DOMAIN sessions) = 2
    /\ LET row == sessions[resp.sid]
       IN /\ row.kill_requested = 1
          /\ row.status = "running" /\ row.current_task = "task"
          /\ row.start_time = isoformat(StartClock)
          /\ row.last_heartbeat = isoformat(StartClock + 1)
          /\ row.app_name = "pool_app" /\ row.user_id = "user"

====
